---- MODULE Spec2Model ----
(***************************************************************************)
(* Model of pymongoenv: the process-wide connection target (mongo_cn,      *)
(* mongo_dbname, mongo_ssl), its write-back into the settings module,      *)
(* connect_db, the db_access context manager and MongoTestMixin.           *)
(*                                                                         *)
(* The interpreter is single threaded, so every call of the API is one     *)
(* action.  A db_access scope is two actions: the generator up to its      *)
(* yield (DbAccessEnter) and its finally block (DbAccessExit); what the    *)
(* block does in between are the other actions.                            *)
(***************************************************************************)
EXTENDS Integers, Sequences, FiniteSets, TLC

VARIABLES
    settings,        \* the settings module: attribute name -> value
    mongo_cn,        \* module global
    mongo_dbname,    \* module global
    mongo_ssl,       \* module global
    clients,         \* every MongoClient(...) call made so far
    accesses,        \* every DbAccess constructed so far
    stack,           \* suspended db_access generators, innermost last
    last,            \* the most recent call and what its caller observed
    docs,            \* test database: collection name -> document count
    tphase,          \* MongoTestMixin: "idle" or "body" (between setUp and tearDown)
    all_collections, \* MongoTestMixin.all_collections
    self_db_access,  \* MongoTestMixin.db_access (index into accesses, 0 = unset)
    deleted,         \* collections a delete_many was ever issued against
    counted          \* collections a count was ever issued against

vars == <<settings, mongo_cn, mongo_dbname, mongo_ssl, clients, accesses,
          stack, last, docs, tphase, all_collections, self_db_access, deleted,
          counted>>

(***************************************************************************)
(* Bounds                                                                  *)
(***************************************************************************)
MaxClients == 2      \* MongoClient constructions in one run
MaxDepth == 2        \* db_access scopes open at once
MaxDocs == 1         \* documents in one collection

(***************************************************************************)
(* Python values                                                           *)
(***************************************************************************)
None == "None"
AttributeError == "AttributeError"
UnboundLocalError == "UnboundLocalError"
ConnectionError == "ConnectionError"
BlockError == "E"
AssertionError == "AssertionError"
CERT_NONE == "ssl.CERT_NONE"

\* hasattr(settings, k)
HasAttr(s, k) == k \in DOMAIN s

\* getattr(settings, k) with the default None instead of raising
GetAttrOrNone(s, k) == IF k \in DOMAIN s THEN s[k] ELSE None

\* getattr(settings, k): the value, or the AttributeError it raises
GetAttr(s, k) == IF HasAttr(s, k) THEN s[k] ELSE AttributeError

\* getattr(settings, k, d)
GetAttrDefault(s, k, d) == IF HasAttr(s, k) THEN s[k] ELSE d

\* setattr(settings, k, v)
SetAttr(s, k, v) == [x \in (DOMAIN s) \cup {k} |-> IF x = k THEN v ELSE s[x]]

(***************************************************************************)
(* Inputs                                                                  *)
(***************************************************************************)
Prefixes == {"APREFIX", "PRODUCTION"}
\* the arguments the application calls change_db with
ChangeArgs ==
    { <<"NEW_CN", "TEST_DBNAME", FALSE>>, <<"TEST_CN", "NEW_DBNAME", TRUE>> }
Envs == {"ok", "open_fails", "ping_fails"}   \* what the server does on a connect
Collections == {"c1", "c2", "other"}
collection_names == <<"c1", "c2">>

\* secrets / base_secrets
TEST_MONGO_CN == "test_secret_cn"
TEST_MONGO_DBNAME == "test_secret_dbname"
TEST_MONGO_SSL == FALSE

\* the settings files the module may be loaded with
DefaultAddrSettings ==
    { [MONGO_CN |-> "TEST_CN"],
      [MONGO_HOST |-> "TEST_HOST"],
      [MONGO_CN |-> "TEST_CN", MONGO_HOST |-> "TEST_HOST"] }

DefaultSslSettings ==
    { <<>>, [MONGO_SSL |-> FALSE], [MONGO_SSL |-> TRUE] }

PrefixAddrSettings ==
    { <<>>,
      [APREFIX_MONGO_CN |-> "prefixed_cn"],
      [APREFIX_MONGO_HOST |-> "prefixed_host"],
      [APREFIX_MONGO_CN |-> "prefixed_cn", APREFIX_MONGO_HOST |-> "prefixed_host"] }

FixedSettings ==
    [MONGO_DBNAME |-> "TEST_DBNAME",
     APREFIX_MONGO_DBNAME |-> "prefixed_dbname",
     PRODUCTION_MONGO_CN |-> "production_cn",
     PRODUCTION_MONGO_DBNAME |-> "production_dbname"]

Merge(f, g) == [x \in (DOMAIN f) \cup (DOMAIN g) |-> IF x \in DOMAIN g THEN g[x] ELSE f[x]]

SettingsFiles ==
    { Merge(Merge(Merge(FixedSettings, a), s), p) :
        a \in DefaultAddrSettings, s \in DefaultSslSettings, p \in PrefixAddrSettings }

(***************************************************************************)
(* The module state as one value, so that calls compose                    *)
(***************************************************************************)
World ==
    [settings |-> settings, mongo_cn |-> mongo_cn, mongo_dbname |-> mongo_dbname,
     mongo_ssl |-> mongo_ssl, clients |-> clients, accesses |-> accesses]

Install(W) ==
    /\ settings' = W.settings
    /\ mongo_cn' = W.mongo_cn
    /\ mongo_dbname' = W.mongo_dbname
    /\ mongo_ssl' = W.mongo_ssl
    /\ clients' = W.clients
    /\ accesses' = W.accesses

Target(W) == [cn |-> W.mongo_cn, dbname |-> W.mongo_dbname, ssl |-> W.mongo_ssl]

\* module initialisation that prefers the host-style key
default_cn_host_first(s) == IF HasAttr(s, "MONGO_HOST") THEN s["MONGO_HOST"] ELSE s["MONGO_CN"]

\* module initialisation
default_cn(s) == IF HasAttr(s, "MONGO_CN") THEN s["MONGO_CN"] ELSE s["MONGO_HOST"]

\* change_db that leaves mongo_dbname alone
change_db_keep_dbname(W, cn, dbname, ssl) ==
    [W EXCEPT !.mongo_cn = cn, !.mongo_ssl = ssl,
              !.settings = SetAttr(SetAttr(W.settings, "MONGO_SSL", ssl), "MONGO_HOST", cn)]

\* change_db that leaves mongo_ssl alone
change_db_keep_ssl(W, cn, dbname, ssl) ==
    [W EXCEPT !.mongo_cn = cn, !.mongo_dbname = dbname,
              !.settings = SetAttr(SetAttr(SetAttr(W.settings, "MONGO_SSL", ssl),
                                   "MONGO_HOST", cn), "MONGO_DBNAME", dbname)]

\* change_db(cn, dbname, ssl)
change_db(W, cn, dbname, ssl) ==
    [W EXCEPT !.mongo_cn = cn, !.mongo_dbname = dbname, !.mongo_ssl = ssl,
              !.settings = SetAttr(SetAttr(SetAttr(W.settings, "MONGO_SSL", ssl),
                                   "MONGO_HOST", cn), "MONGO_DBNAME", dbname)]

\* MongoClient(mongo_cn, w='majority', connect=True, ssl_cert_reqs=ssl_req);
\* opened is FALSE when the constructor raised and there is no client object
MongoClient(host, ssl_req, opened) ==
    [host |-> host, w |-> "majority", ssl_cert_reqs |-> ssl_req, opened |-> opened,
     closes |-> 0]

\* the opposite mapping: a mode only when no secure connection is asked for
ssl_req_of_inverted(ssl) == IF ssl THEN None ELSE CERT_NONE

\* the ssl_req connect_db derives from mongo_ssl
ssl_req_of(ssl) == IF ssl THEN CERT_NONE ELSE None

\* DbAccess(client, db)
DbAccess(client, db) == [client |-> client, db |-> db]

\* connect_db() that takes the address from the settings module
connect_db_from_settings(W, env) ==
    LET host == IF HasAttr(W.settings, "MONGO_CN") THEN W.settings["MONGO_CN"]
                ELSE W.settings["MONGO_HOST"]
        client == MongoClient(host, ssl_req_of(W.mongo_ssl), env # "open_fails")
        W1 == [W EXCEPT !.clients = Append(@, client)]
        cid == Len(W1.clients)
    IN  IF env \in {"open_fails", "ping_fails"}
        THEN [W |-> W1, raised |-> ConnectionError, access |-> 0]
        ELSE [W |-> [W1 EXCEPT !.accesses = Append(@, DbAccess(cid, W.mongo_dbname))],
              raised |-> None,
              access |-> Len(W1.accesses) + 1]

\* connect_db() against a server that behaves as env: the new world, the
\* error raised (None when it returns) and the DbAccess returned (0 when it raises)
connect_db(W, env) ==
    LET client == MongoClient(W.mongo_cn, ssl_req_of(W.mongo_ssl), env # "open_fails")
        W1 == [W EXCEPT !.clients = Append(@, client)]
        cid == Len(W1.clients)
    IN  IF env \in {"open_fails", "ping_fails"}
        THEN [W |-> W1, raised |-> ConnectionError, access |-> 0]
        ELSE [W |-> [W1 EXCEPT !.accesses = Append(@, DbAccess(cid, W.mongo_dbname))],
              raised |-> None,
              access |-> Len(W1.accesses) + 1]

\* client.close() that does nothing
close_noop(W, cid) == W

\* client.close()
close(W, cid) == [W EXCEPT !.clients[cid].closes = @ + 1]

\* the snapshot db_access takes of the default address
old_host_of(s) == IF HasAttr(s, "MONGO_CN") THEN s["MONGO_CN"] ELSE s["MONGO_HOST"]

\* address resolution that prefers the host-style key
new_cn_host_first(s, prefix) ==
    IF HasAttr(s, prefix \o "_MONGO_HOST")
    THEN GetAttr(s, prefix \o "_MONGO_HOST")
    ELSE GetAttr(s, prefix \o "_MONGO_CN")

\* the address db_access resolves for a prefix
new_cn_of(s, prefix) ==
    IF HasAttr(s, prefix \o "_MONGO_CN")
    THEN GetAttr(s, prefix \o "_MONGO_CN")
    ELSE GetAttr(s, prefix \o "_MONGO_HOST")

\* a finally block that swallows the error of the block
db_access_finally_swallow(W, local, old_host, old_dbname, ssl, pending) ==
    IF local = 0
    THEN [W |-> W, raised |-> UnboundLocalError, effects |-> <<>>]
    ELSE LET W1 == close(W, W.accesses[local].client)
             W2 == [W1 EXCEPT !.accesses[local] = [client |-> 0, db |-> None]]
             W3 == change_db(W2, old_host, old_dbname, ssl)
         IN  [W |-> W3, raised |-> None, effects |-> <<"close", "change_db">>]

\* the finally block of db_access.  local is the generator's local variable
\* db_access (0 while it is unbound), pending the error in flight (None on
\* normal completion).
\* Result: the new world, the error the caller sees and the calls made, in order.
db_access_finally(W, local, old_host, old_dbname, ssl, pending) ==
    IF local = 0
    THEN [W |-> W, raised |-> UnboundLocalError, effects |-> <<>>]
    ELSE LET W1 == close(W, W.accesses[local].client)
             W2 == [W1 EXCEPT !.accesses[local] = [client |-> 0, db |-> None]]
             W3 == change_db(W2, old_host, old_dbname, ssl)
         IN  [W |-> W3, raised |-> pending, effects |-> <<"close", "change_db">>]

\* db_access(prefix, ssl) from the call to its yield, or to the error it
\* raises.  frame.db_access = 0 means the generator did not yield.
db_access(W, prefix, ssl, env) ==
    LET s == W.settings
        old_host == old_host_of(s)
        old_dbname == s["MONGO_DBNAME"]
        new_cn == new_cn_of(s, prefix)
        new_dbname == GetAttr(s, prefix \o "_MONGO_DBNAME")
        frame == [old_host |-> old_host, old_dbname |-> old_dbname, ssl |-> ssl,
                  db_access |-> 0]
    IN  IF new_cn = AttributeError \/ new_dbname = AttributeError
        THEN [W |-> W, raised |-> AttributeError, frame |-> frame]
        ELSE LET W1 == change_db(W, new_cn, new_dbname, ssl)
                 c == connect_db(W1, env)
             IN  IF c.raised # None
                 THEN LET f == db_access_finally(c.W, 0, old_host, old_dbname, ssl, c.raised)
                      IN  [W |-> f.W, raised |-> f.raised, frame |-> frame]
                 ELSE [W |-> c.W, raised |-> None,
                       frame |-> [frame EXCEPT !.db_access = c.access]]

\* production_access() that asks for no secure connection
production_access_plain(W, env) == db_access(W, "PRODUCTION", FALSE, env)

\* production_access(): with db_access('PRODUCTION', True) as access: yield access
production_access(W, env) == db_access(W, "PRODUCTION", TRUE, env)

\* the database handle a wrapper yields from the DbAccess it obtained (access.db)
db_of(r) == IF r.raised = None THEN r.W.accesses[r.frame.db_access].db ELSE None

\* production_db(): with production_access() as db_access: yield db_access.db
production_db(W, env) == production_access(W, env)

\* context_db(prefix, ssl): with db_access(prefix, ssl) as access: yield access.db
context_db(W, prefix, ssl, env) == db_access(W, prefix, ssl, env)

(***************************************************************************)
(* The record of the last call                                             *)
(***************************************************************************)
NoCall ==
    [op |-> "none", prefix |-> None, cn |-> None, dbname |-> None, ssl |-> FALSE,
     env |-> None, how |-> None, raised |-> None, access |-> 0, db |-> None,
     effects |-> <<>>]

Call(op) == [NoCall EXCEPT !.op = op]

TestVars == <<docs, tphase, all_collections, self_db_access, deleted, counted>>

(***************************************************************************)
(* Initial state: the module has just been imported                        *)
(***************************************************************************)
Init ==
    /\ settings \in SettingsFiles
    /\ mongo_cn = default_cn(settings)
    /\ mongo_dbname = settings["MONGO_DBNAME"]
    /\ mongo_ssl = GetAttrDefault(settings, "MONGO_SSL", FALSE)
    /\ clients = <<>>
    /\ accesses = <<>>
    /\ stack = <<>>
    /\ last = NoCall
    /\ docs = [c \in Collections |-> 0]
    /\ tphase = "idle"
    /\ all_collections = <<>>
    /\ self_db_access = 0
    /\ deleted = {}
    /\ counted = {}

(***************************************************************************)
(* Actions                                                                 *)
(***************************************************************************)
\* the application calls change_db(cn, dbname, ssl)
ChangeDb(cn, dbname, ssl) ==
    /\ Install(change_db(World, cn, dbname, ssl))
    /\ last' = [Call("change_db") EXCEPT !.cn = cn, !.dbname = dbname, !.ssl = ssl]
    /\ UNCHANGED <<stack, TestVars>>

\* the application calls connect_db()
ConnectDb(env) ==
    /\ Len(clients) < MaxClients
    /\ LET c == connect_db(World, env)
       IN  /\ Install(c.W)
           /\ last' = [Call("connect_db") EXCEPT !.env = env, !.raised = c.raised,
                                                 !.access = c.access]
    /\ UNCHANGED <<stack, TestVars>>

\* with db_access(prefix, ssl) as access: up to the first statement of the block
DbAccessEnter(prefix, ssl, env) ==
    /\ Len(clients) < MaxClients
    /\ Len(stack) < MaxDepth
    /\ LET r == db_access(World, prefix, ssl, env)
       IN  /\ Install(r.W)
           /\ stack' = IF r.raised = None
                       THEN Append(stack, [gen |-> r.frame, before |-> Target(World)])
                       ELSE stack
           /\ last' = [Call("db_access") EXCEPT !.prefix = prefix, !.ssl = ssl, !.env = env,
                                                !.raised = r.raised,
                                                !.access = r.frame.db_access]
    /\ UNCHANGED TestVars

\* with production_access() as access: up to the first statement of the block
ProductionAccessEnter(env) ==
    /\ Len(clients) < MaxClients
    /\ Len(stack) < MaxDepth
    /\ LET r == production_access(World, env)
       IN  /\ Install(r.W)
           /\ stack' = IF r.raised = None
                       THEN Append(stack, [gen |-> r.frame, before |-> Target(World)])
                       ELSE stack
           /\ last' = [Call("production_access") EXCEPT !.env = env, !.raised = r.raised,
                                                        !.access = r.frame.db_access]
    /\ UNCHANGED TestVars

\* with production_db() as prod_db: up to the first statement of the block
ProductionDbEnter(env) ==
    /\ Len(clients) < MaxClients
    /\ Len(stack) < MaxDepth
    /\ LET r == production_db(World, env)
       IN  /\ Install(r.W)
           /\ stack' = IF r.raised = None
                       THEN Append(stack, [gen |-> r.frame, before |-> Target(World)])
                       ELSE stack
           /\ last' = [Call("production_db") EXCEPT !.env = env, !.raised = r.raised,
                                                    !.db = db_of(r)]
    /\ UNCHANGED TestVars

\* with context_db(prefix, ssl) as db: up to the first statement of the block
ContextDbEnter(prefix, ssl, env) ==
    /\ Len(clients) < MaxClients
    /\ Len(stack) < MaxDepth
    /\ LET r == context_db(World, prefix, ssl, env)
       IN  /\ Install(r.W)
           /\ stack' = IF r.raised = None
                       THEN Append(stack, [gen |-> r.frame, before |-> Target(World)])
                       ELSE stack
           /\ last' = [Call("context_db") EXCEPT !.prefix = prefix, !.ssl = ssl, !.env = env,
                                                 !.raised = r.raised, !.db = db_of(r)]
    /\ UNCHANGED TestVars

\* the block of the innermost scope ends: how = "return" or "raise".  The
\* wrappers have no code after their yield, so every kind of scope ends in
\* the finally block of db_access.
DbAccessExit(how) ==
    /\ stack # <<>>
    /\ LET top == stack[Len(stack)]
           g == top.gen
           pending == IF how = "raise" THEN BlockError ELSE None
           f == db_access_finally(World, g.db_access, g.old_host, g.old_dbname, g.ssl, pending)
       IN  /\ Install(f.W)
           /\ stack' = SubSeq(stack, 1, Len(stack) - 1)
           /\ last' = [Call("db_access_exit") EXCEPT !.how = how, !.ssl = g.ssl,
                                                     !.raised = f.raised,
                                                     !.effects = f.effects]
    /\ UNCHANGED TestVars

Next ==
    \/ \E a \in ChangeArgs : ChangeDb(a[1], a[2], a[3])
    \/ \E env \in Envs : ConnectDb(env)
    \/ \E prefix \in Prefixes, ssl \in BOOLEAN, env \in Envs : DbAccessEnter(prefix, ssl, env)
    \/ \E how \in {"return", "raise"} : DbAccessExit(how)

Spec == Init /\ [][Next]_vars

\* the application reaches the database through the wrappers only
WrapNext ==
    \/ \E a \in ChangeArgs : ChangeDb(a[1], a[2], a[3])
    \/ \E env \in Envs : ProductionAccessEnter(env)
    \/ \E env \in Envs : ProductionDbEnter(env)
    \/ \E prefix \in Prefixes, ssl \in BOOLEAN, env \in Envs : ContextDbEnter(prefix, ssl, env)
    \/ \E how \in {"return", "raise"} : DbAccessExit(how)

WrapSpec == Init /\ [][WrapNext]_vars

(***************************************************************************)
(* MongoTestMixin under unittest: setUp, the test body, tearDown.  When    *)
(* setUp raises, unittest runs neither the test body nor tearDown.         *)
(***************************************************************************)
Elems(q) == { q[i] : i \in 1..Len(q) }

\* a guard that tolerates one document per collection
counts_above_one(d, cols) == [c \in { x \in Elems(cols) : d[x] > 1 } |-> d[c]]

\* the counts dictionary of setUp: the bound collections that hold documents
counts(d, cols) == [c \in { x \in Elems(cols) : d[x] > 0 } |-> d[c]]

\* setUp that puts the previous target back when the guard fails
setUp_restoring(W, d, env) ==
    LET W1 == change_db(W, TEST_MONGO_CN, TEST_MONGO_DBNAME, TEST_MONGO_SSL)
        c == connect_db(W1, env)
        populated == Cardinality(DOMAIN counts(d, collection_names)) > 0
    IN  IF c.raised # None
        THEN [W |-> c.W, raised |-> c.raised, db_access |-> 0, all_collections |-> <<>>,
              counted |-> {}]
        ELSE [W |-> IF populated
                    THEN change_db(c.W, W.mongo_cn, W.mongo_dbname, W.mongo_ssl)
                    ELSE c.W,
              raised |-> IF populated THEN AssertionError ELSE None,
              db_access |-> c.access, all_collections |-> collection_names,
              counted |-> Elems(collection_names)]

\* setUp against a server that behaves as env and a database holding d
setUp(W, d, env) ==
    LET W1 == change_db(W, TEST_MONGO_CN, TEST_MONGO_DBNAME, TEST_MONGO_SSL)
        c == connect_db(W1, env)
    IN  IF c.raised # None
        THEN [W |-> c.W, raised |-> c.raised, db_access |-> 0, all_collections |-> <<>>,
              counted |-> {}]
        ELSE [W |-> c.W,
              raised |-> IF Cardinality(DOMAIN counts(d, collection_names)) > 0
                         THEN AssertionError ELSE None,
              db_access |-> c.access, all_collections |-> collection_names,
              counted |-> Elems(collection_names)]

\* tearDown that empties the whole database
tearDown_all(d, cols) == [c \in DOMAIN d |-> 0]

\* tearDown: the database after delete_many({}) on every bound collection
tearDown(d, cols) == [c \in DOMAIN d |-> IF c \in Elems(cols) THEN 0 ELSE d[c]]

TestSettingsFiles == { Merge(FixedSettings, a) : a \in DefaultAddrSettings }

InitTest ==
    /\ settings \in TestSettingsFiles
    /\ mongo_cn = default_cn(settings)
    /\ mongo_dbname = settings["MONGO_DBNAME"]
    /\ mongo_ssl = GetAttrDefault(settings, "MONGO_SSL", FALSE)
    /\ clients = <<>>
    /\ accesses = <<>>
    /\ stack = <<>>
    /\ last = NoCall
    /\ docs \in [Collections -> 0..MaxDocs]
    /\ tphase = "idle"
    /\ all_collections = <<>>
    /\ self_db_access = 0
    /\ deleted = {}
    /\ counted = {}

\* unittest calls setUp on a fresh test case
SetUp(env) ==
    /\ tphase = "idle"
    /\ Len(clients) < MaxClients
    /\ LET r == setUp(World, docs, env)
       IN  /\ Install(r.W)
           /\ self_db_access' = r.db_access
           /\ all_collections' = r.all_collections
           /\ tphase' = IF r.raised = None THEN "body" ELSE "idle"
           /\ counted' = counted \cup r.counted
           /\ last' = [Call("setUp") EXCEPT !.env = env, !.raised = r.raised]
    /\ UNCHANGED <<stack, docs, deleted>>

\* the test body stores n documents in collection c
TestWrite(c, n) ==
    /\ tphase = "body"
    /\ docs' = [docs EXCEPT ![c] = n]
    /\ last' = Call("test")
    /\ UNCHANGED <<settings, mongo_cn, mongo_dbname, mongo_ssl, clients, accesses,
                   stack, tphase, all_collections, self_db_access, deleted, counted>>

\* unittest calls tearDown after the test body
TearDown ==
    /\ tphase = "body"
    /\ docs' = tearDown(docs, all_collections)
    /\ deleted' = deleted \cup Elems(all_collections)
    /\ self_db_access' = 0
    /\ tphase' = "idle"
    /\ last' = Call("tearDown")
    /\ UNCHANGED <<settings, mongo_cn, mongo_dbname, mongo_ssl, clients, accesses,
                   stack, all_collections, counted>>

TestNext ==
    \/ \E a \in ChangeArgs : ChangeDb(a[1], a[2], a[3])
    \/ \E env \in Envs : SetUp(env)
    \/ \E c \in Collections, n \in 0..MaxDocs : TestWrite(c, n)
    \/ TearDown

TestSpec == InitTest /\ [][TestNext]_vars

(***************************************************************************)
(* Properties                                                              *)
(***************************************************************************)
CnKey(prefix) == prefix \o "_MONGO_CN"
HostKey(prefix) == prefix \o "_MONGO_HOST"
DbnameKey(prefix) == prefix \o "_MONGO_DBNAME"

\* the step is the finally block of the innermost scope
IsExit == last'.op = "db_access_exit"
\* the ConnectionTarget that was active when the innermost scope was entered
Entry == stack[Len(stack)].before
\* the client of the DbAccess the innermost scope yielded
ScopeClient == accesses[stack[Len(stack)].gen.db_access].client

\* C1: after a db_access scope exits, normally or by an error of its block,
\* mongo_cn and mongo_dbname are the ones that were active immediately before
\* the scope was entered, whatever change_db calls came before.
C1_ExitRestoresAddressAndName ==
    [][IsExit => (mongo_cn' = Entry.cn /\ mongo_dbname' = Entry.dbname)]_vars

\* C2: when connect_db fails inside db_access, the ConnectionTarget active
\* before entry is restored, the caller sees the connection error itself and
\* the block is not run.
C2_ConnectFailureRestoresAndPropagates ==
    [][(/\ last'.op = "db_access"
        /\ last'.env \in {"open_fails", "ping_fails"}
        /\ last'.raised # AttributeError)
       => (/\ Target(World)' = Target(World)
           /\ last'.raised = ConnectionError
           /\ stack' = stack)]_vars

\* C3: after a db_access scope exits, mongo_ssl and settings.MONGO_SSL are the
\* flag that was active immediately before entry.
C3_ExitRestoresSecureFlag ==
    [][IsExit => (mongo_ssl' = Entry.ssl /\ settings'["MONGO_SSL"] = Entry.ssl)]_vars

\* C4: db_access(prefix) for a prefix with neither <prefix>_MONGO_CN nor
\* <prefix>_MONGO_HOST raises the attribute lookup's error to the caller and
\* changes nothing: globals and settings are as before, no client is
\* constructed, no scope is entered.
C4_MissingAddressFailsUnchanged ==
    [][(/\ last'.op = "db_access"
        /\ ~HasAttr(settings, CnKey(last'.prefix))
        /\ ~HasAttr(settings, HostKey(last'.prefix)))
       => (/\ last'.raised = AttributeError
           /\ UNCHANGED <<settings, mongo_cn, mongo_dbname, mongo_ssl,
                          clients, accesses, stack>>)]_vars

C4_Witness ==
    /\ last.op = "db_access"
    /\ ~HasAttr(settings, CnKey(last.prefix))
    /\ ~HasAttr(settings, HostKey(last.prefix))
    /\ last.raised = AttributeError
    /\ mongo_cn = "NEW_CN"

\* C5: when the block of db_access(prefix, ssl) starts, the active
\* ConnectionTarget is (address resolved for prefix, <prefix>_MONGO_DBNAME, ssl)
\* and the DbAccess yielded is connected to that address and database.
C5_TargetInsideBlock ==
    (last.op = "db_access" /\ last.raised = None)
    => LET addr == IF HasAttr(settings, CnKey(last.prefix))
                   THEN settings[CnKey(last.prefix)]
                   ELSE settings[HostKey(last.prefix)]
           access == accesses[stack[Len(stack)].gen.db_access]
       IN  /\ mongo_cn = addr
           /\ mongo_dbname = settings[DbnameKey(last.prefix)]
           /\ mongo_ssl = last.ssl
           /\ access.db = settings[DbnameKey(last.prefix)]
           /\ clients[access.client].host = addr

C5_Witness ==
    /\ last.op = "db_access" /\ last.raised = None
    /\ last.prefix = "PRODUCTION" /\ last.ssl
    /\ settings["MONGO_HOST"] = "production_cn"
    /\ stack[Len(stack)].before = [cn |-> "NEW_CN", dbname |-> "TEST_DBNAME", ssl |-> FALSE]

\* C6: in a scope entered for a prefix that has only <prefix>_MONGO_HOST the
\* address is that value; for a prefix that has <prefix>_MONGO_CN as well the
\* address is the <prefix>_MONGO_CN value.
C6_AddressResolution ==
    (last.op = "db_access" /\ last.raised = None)
    => /\ (HasAttr(settings, HostKey(last.prefix)) /\ ~HasAttr(settings, CnKey(last.prefix)))
          => mongo_cn = settings[HostKey(last.prefix)]
       /\ (HasAttr(settings, HostKey(last.prefix)) /\ HasAttr(settings, CnKey(last.prefix)))
          => mongo_cn = settings[CnKey(last.prefix)]

C6_Witness ==
    /\ last.op = "db_access" /\ last.raised = None
    /\ HasAttr(settings, HostKey(last.prefix)) /\ HasAttr(settings, CnKey(last.prefix))
    /\ mongo_cn = "prefixed_cn"

C6_HostOnlyReached ==
    /\ last.op = "db_access" /\ last.raised = None
    /\ HasAttr(settings, HostKey(last.prefix)) /\ ~HasAttr(settings, CnKey(last.prefix))
    /\ mongo_cn = "prefixed_host"

\* C7: right after change_db(cn, dbname, ssl) the three globals are exactly
\* cn, dbname and ssl.
C7_ChangeDbReplacesAllThree ==
    last.op = "change_db"
    => (mongo_cn = last.cn /\ mongo_dbname = last.dbname /\ mongo_ssl = last.ssl)

C7_Witness ==
    /\ last.op = "change_db"
    /\ last.cn = "TEST_CN" /\ last.dbname = "NEW_DBNAME" /\ last.ssl
    /\ mongo_cn = "TEST_CN" /\ mongo_dbname = "NEW_DBNAME" /\ mongo_ssl

\* C8: after change_db(cn, dbname, ssl) a reader of the settings module that
\* resolves the default address (MONGO_CN first, MONGO_HOST otherwise), the
\* database name and the secure flag gets exactly (cn, dbname, ssl).
C8_SettingsAgreeAfterChangeDb ==
    last.op = "change_db"
    => /\ (IF HasAttr(settings, "MONGO_CN") THEN settings["MONGO_CN"]
           ELSE settings["MONGO_HOST"]) = last.cn
       /\ settings["MONGO_DBNAME"] = last.dbname
       /\ GetAttrDefault(settings, "MONGO_SSL", FALSE) = last.ssl

\* C9: the client of the DbAccess a scope yielded is not closed while the
\* scope is open, is closed once by the scope's exit (return or raise), and
\* no other step closes any client.
C9_ClosedExactlyOnceAtExit ==
    [][/\ \A i \in 1..Len(stack') :
            clients'[accesses'[stack'[i].gen.db_access].client].closes = 0
       /\ IsExit => /\ clients[ScopeClient].closes = 0
                    /\ clients'[ScopeClient].closes = 1
       /\ \A c \in 1..Len(clients) :
            (~IsExit \/ c # ScopeClient) => clients'[c].closes = clients[c].closes]_vars

C9_Witness ==
    /\ last.op = "db_access_exit" /\ last.how = "raise" /\ last.raised = BlockError
    /\ \E c \in 1..Len(clients) : clients[c].closes = 1
    /\ stack # <<>>

\* C10: setUp whose connection succeeded fails the test when a collection of
\* collection_names holds a document, and completes when all of them are
\* empty; whenever such a collection holds a document setUp raises, the test
\* body does not run, and setUp issues no delete and leaves every collection
\* as it was.
C10_GuardAbortsOnDocuments ==
    [][last'.op = "setUp"
       => LET populated == \E i \in 1..Len(collection_names) : docs[collection_names[i]] > 0
          IN  /\ populated => /\ last'.raised # None
                              /\ tphase' = "idle"
                              /\ deleted' = deleted
                              /\ docs' = docs
              /\ (populated /\ last'.env = "ok") => last'.raised = AssertionError
              /\ (~populated /\ last'.env = "ok") => (last'.raised = None /\ tphase' = "body")]_vars

C10_Witness ==
    /\ last.op = "setUp" /\ last.raised = AssertionError
    /\ docs["c1"] = 0 /\ docs["c2"] > 0
    /\ tphase = "idle" /\ deleted = {}

\* C11: right after the module is imported, mongo_cn is settings.MONGO_CN when
\* that key is present (with or without MONGO_HOST) and settings.MONGO_HOST
\* otherwise, mongo_dbname is settings.MONGO_DBNAME, and mongo_ssl is
\* settings.MONGO_SSL, or false when that key is absent.
C11_InitReflectsSettings ==
    last.op = "none"
    => /\ HasAttr(settings, "MONGO_CN") => mongo_cn = settings["MONGO_CN"]
       /\ ~HasAttr(settings, "MONGO_CN") => mongo_cn = settings["MONGO_HOST"]
       /\ mongo_dbname = settings["MONGO_DBNAME"]
       /\ HasAttr(settings, "MONGO_SSL") => mongo_ssl = settings["MONGO_SSL"]
       /\ ~HasAttr(settings, "MONGO_SSL") => mongo_ssl = FALSE

C11_Witness ==
    /\ last.op = "none"
    /\ HasAttr(settings, "MONGO_CN") /\ HasAttr(settings, "MONGO_HOST")
    /\ mongo_cn = "TEST_CN" /\ settings["MONGO_HOST"] = "TEST_HOST"
    /\ ~HasAttr(settings, "MONGO_SSL") /\ ~mongo_ssl

\* the step db_access(prefix, ssl) takes from the current state against the
\* same server, yielding the DbAccess (whole) or only its database handle
SameAsDbAccess(prefix, ssl, whole) ==
    LET r == db_access(World, prefix, ssl, last'.env)
    IN  /\ World' = r.W
        /\ last'.raised = r.raised
        /\ stack' = IF r.raised = None
                    THEN Append(stack, [gen |-> r.frame, before |-> Target(World)])
                    ELSE stack
        /\ r.raised = None
           => /\ mongo_cn' = new_cn_of(settings, prefix)
              /\ mongo_dbname' = settings[DbnameKey(prefix)]
              /\ mongo_ssl' = ssl
              /\ clients'[Len(clients')].host = mongo_cn'
              /\ IF whole
                 THEN last'.access = Len(accesses') /\ last'.db = None
                 ELSE last'.access = 0 /\ last'.db = settings[DbnameKey(prefix)]

\* C12: production_access() does what db_access('PRODUCTION', True) does from
\* the same state: the same target inside the scope (PRODUCTION address,
\* PRODUCTION database name, secure), a DbAccess for it, the same error when
\* it fails, and the same saved state for the exit; production_db() and
\* context_db(prefix, ssl) do the same and yield only the database handle.
C12_WrappersAsDbAccess ==
    [][/\ last'.op = "production_access"
          => /\ SameAsDbAccess("PRODUCTION", TRUE, TRUE)
             /\ last'.raised = None => mongo_cn' = settings["PRODUCTION_MONGO_CN"]
       /\ last'.op = "production_db"
          => /\ SameAsDbAccess("PRODUCTION", TRUE, FALSE)
             /\ last'.raised = None => last'.db = settings["PRODUCTION_MONGO_DBNAME"]
       /\ last'.op = "context_db"
          => SameAsDbAccess(last'.prefix, last'.ssl, FALSE)]_vars

C12_Witness ==
    /\ last.op = "production_db" /\ last.raised = None
    /\ last.db = "production_dbname" /\ last.access = 0
    /\ mongo_cn = "production_cn" /\ mongo_dbname = "production_dbname" /\ mongo_ssl
    /\ stack[Len(stack)].before = [cn |-> "NEW_CN", dbname |-> "TEST_DBNAME", ssl |-> FALSE]

\* C13: tearDown leaves every collection bound in setUp without documents,
\* and the client that setUp opened is closed by the time tearDown returns.
C13_TearDownPurgesAndReleases ==
    [][last'.op = "tearDown"
       => /\ \A i \in 1..Len(all_collections) : docs'[all_collections[i]] = 0
          /\ clients'[accesses[self_db_access].client].closes >= 1]_vars

\* C14: setUp and tearDown leave the contents of every collection that is not
\* in collection_names as they were, and issue counts and deletes against
\* collections of collection_names only.
C14_UnlistedCollectionsUntouched ==
    [][last'.op \in {"setUp", "tearDown"}
       => /\ \A c \in Collections \ Elems(collection_names) : docs'[c] = docs[c]
          /\ (deleted' \ deleted) \subseteq Elems(collection_names)
          /\ (counted' \ counted) \subseteq Elems(collection_names)]_vars

C14_Witness ==
    /\ last.op = "tearDown"
    /\ docs["other"] > 0 /\ docs["c1"] = 0 /\ docs["c2"] = 0
    /\ deleted = {"c1", "c2"} /\ counted = {"c1", "c2"}

\* C20: after setUp, completed or aborted by the guard, the active
\* ConnectionTarget is the test triple whatever it was before, and tearDown
\* leaves the ConnectionTarget and the settings as they are.
C20_MixinNeverRestores ==
    [][/\ last'.op = "setUp"
          => Target(World)' = [cn |-> TEST_MONGO_CN, dbname |-> TEST_MONGO_DBNAME,
                               ssl |-> TEST_MONGO_SSL]
       /\ last'.op = "tearDown"
          => (Target(World)' = Target(World) /\ settings' = settings)]_vars

C20_Witness ==
    /\ last.op = "tearDown"
    /\ mongo_cn = TEST_MONGO_CN /\ mongo_dbname = TEST_MONGO_DBNAME /\ mongo_ssl = TEST_MONGO_SSL
    /\ settings["MONGO_HOST"] = TEST_MONGO_CN
    /\ HasAttr(settings, "MONGO_CN") /\ settings["MONGO_CN"] = "TEST_CN"

C20_GuardAbortReached ==
    /\ last.op = "setUp" /\ last.raised = AssertionError
    /\ mongo_cn = TEST_MONGO_CN /\ mongo_dbname = TEST_MONGO_DBNAME
    /\ HasAttr(settings, "MONGO_CN") /\ settings["MONGO_CN"] = "TEST_CN"

\* C15: a DbAccess that connect_db returns is opened against the target
\* active at the call: right after change_db(cn, dbname, ssl) that is cn,
\* dbname and the mode derived from ssl; change_db leaves the clients and
\* DbAccess objects that exist as they are.
C15_ConnectsToActiveTarget ==
    [][/\ (last'.op = "connect_db" /\ last'.raised = None)
          => LET a == accesses'[last'.access]
             IN  /\ a.db = mongo_dbname /\ clients'[a.client].host = mongo_cn
                 /\ last.op = "change_db"
                    => /\ a.db = last.dbname
                       /\ clients'[a.client].host = last.cn
                       /\ clients'[a.client].ssl_cert_reqs
                            = (IF last.ssl THEN CERT_NONE ELSE None)
       /\ last'.op = "change_db" => (accesses' = accesses /\ clients' = clients)]_vars

C15_Witness ==
    /\ last.op = "connect_db" /\ last.raised = None /\ last.access = 2
    /\ accesses[1].db = "TEST_DBNAME" /\ clients[accesses[1].client].host = "TEST_CN"
    /\ accesses[2].db = "TEST_DBNAME" /\ clients[accesses[2].client].host = "NEW_CN"
    /\ HasAttr(settings, "MONGO_CN")

C15_ModeChangeReached ==
    /\ last.op = "connect_db" /\ last.raised = None /\ last.access = 2
    /\ accesses[1].db = "TEST_DBNAME" /\ accesses[2].db = "NEW_DBNAME"
    /\ clients[accesses[1].client].ssl_cert_reqs = None
    /\ clients[accesses[2].client].ssl_cert_reqs = CERT_NONE

\* the call constructed a client: connect_db was reached
Connected == last.op \in {"connect_db", "db_access"} /\ last.raised # AttributeError

\* C16 as claimed: a client constructed while the secure flag is false gets
\* the mode ssl.CERT_NONE.
C16_PlainMapsToCertNone ==
    (Connected /\ ~mongo_ssl) => clients[Len(clients)].ssl_cert_reqs = CERT_NONE

\* C16 as amended: a client constructed while the secure flag is true gets
\* the mode ssl.CERT_NONE, and one constructed while it is false gets no
\* mode (None), in connect_db called directly or by db_access.
C16_SecureMapsToCertNone ==
    Connected
    => /\ mongo_ssl => clients[Len(clients)].ssl_cert_reqs = CERT_NONE
       /\ ~mongo_ssl => clients[Len(clients)].ssl_cert_reqs = None

C16_Witness ==
    /\ last.op = "connect_db" /\ last.raised = None
    /\ ~mongo_ssl /\ mongo_cn = "NEW_CN"
    /\ clients[Len(clients)].ssl_cert_reqs = None
    /\ clients[Len(clients)].host = "NEW_CN"

C16_SecureReached ==
    /\ last.op = "db_access" /\ last.raised = None /\ mongo_ssl
    /\ clients[Len(clients)].ssl_cert_reqs = CERT_NONE

\* C17: when the block of a scope raises E, the caller sees E, and by then
\* the finally block has closed the client and afterwards called change_db
\* with the address and database name the scope saved at entry.
C17_BlockErrorPropagatesAfterCleanup ==
    [][(IsExit /\ last'.how = "raise")
       => LET g == stack[Len(stack)].gen
          IN  /\ last'.raised = BlockError
              /\ last'.effects = <<"close", "change_db">>
              /\ clients'[ScopeClient].closes = 1
              /\ accesses'[g.db_access] = [client |-> 0, db |-> None]
              /\ mongo_cn' = g.old_host /\ mongo_dbname' = g.old_dbname
              /\ settings'["MONGO_HOST"] = g.old_host
              /\ settings'["MONGO_DBNAME"] = g.old_dbname
              /\ stack' = SubSeq(stack, 1, Len(stack) - 1)]_vars

C17_Witness ==
    /\ last.op = "db_access_exit" /\ last.how = "raise" /\ last.raised = BlockError
    /\ last.effects = <<"close", "change_db">>
    /\ stack = <<>>
    /\ clients[1].closes = 1
    /\ mongo_cn = "TEST_HOST" /\ mongo_dbname = "TEST_DBNAME"

\* the scope around the innermost one, and the address and database name it connected to
Outer == stack[Len(stack) - 1]
OuterCn == clients[accesses[Outer.gen.db_access].client].host
OuterDbname == accesses[Outer.gen.db_access].db

\* C18: with a scope for Q entered inside the block of a scope for P, the
\* exit of the inner scope makes P's address and database name active again,
\* and the exit of the outer scope that follows makes active the ones from
\* before the outer entry.
C18_NestedScopesRestoreLifo ==
    [][/\ (IsExit /\ Len(stack) >= 2 /\ Entry.cn = OuterCn /\ Entry.dbname = OuterDbname)
          => (mongo_cn' = OuterCn /\ mongo_dbname' = OuterDbname)
       /\ (IsExit /\ Len(stack) = 1 /\ last.op = "db_access_exit")
          => (mongo_cn' = Entry.cn /\ mongo_dbname' = Entry.dbname)]_vars

\* C18 for settings that have no MONGO_CN
C18_HostOnlyLifo ==
    [][~HasAttr(settings, "MONGO_CN")
       => /\ (IsExit /\ Len(stack) >= 2 /\ Entry.cn = OuterCn /\ Entry.dbname = OuterDbname)
             => (mongo_cn' = OuterCn /\ mongo_dbname' = OuterDbname)
          /\ (IsExit /\ Len(stack) = 1 /\ last.op = "db_access_exit")
             => (mongo_cn' = Entry.cn /\ mongo_dbname' = Entry.dbname)]_vars

\* C19: every client that was opened is held by a DbAccess or has been closed.
C19_NoClientLeftOpen ==
    \A c \in 1..Len(clients) :
        clients[c].opened
        => \/ clients[c].closes >= 1
           \/ \E a \in 1..Len(accesses) : accesses[a].client = c

====
